---- MODULE Spec2Model ----
(***************************************************************************)
(* A model of the Jenkins client library: the job client (pkg/job/job.go)  *)
(* and the plugin manager (plugin package).  Every operation is a          *)
(* sequential run of request round trips; the server and the local file    *)
(* system are the environment, whose answers are drawn with \E.            *)
(***************************************************************************)
EXTENDS Integers, Sequences, FiniteSets, TLC

(***************************************************************************)
(* Bounds of the model.                                                    *)
(***************************************************************************)
MaxBuilds == 3
MaxBuildNumber == 3
MaxParams == 3
MaxNames == 2
MaxNameLen == 5
MaxSegments == 3

(***************************************************************************)
(* Common values.                                                          *)
(***************************************************************************)
Nil == "nil"

\* The status codes the server may answer with.
Statuses == {200, 201, 302, 400, 404, 500}

\* What one round trip brings back: the transport either fails (network or
\* authentication) or delivers the server's status code.
Outcomes == [transportOk : BOOLEAN, status : Statuses]

\* Before any round trip there is no answer.
NoResponse == [transportOk |-> FALSE, status |-> 0]

\* Sequences over S of length at most n.
SeqUpTo(S, n) == UNION {[1..k -> S] : k \in 0..n}

Prefix(s, k) == SubSeq(s, 1, k)

(***************************************************************************)
(* Go strings are sequences of characters; a literal piece of a format     *)
(* string that holds no separator is written as one element.               *)
(***************************************************************************)
\* strings.Contains(s, c) for a one-character c.
Contains(s, c) == \E i \in 1..Len(s) : s[i] = c

\* strings.HasPrefix
HasPrefix(s, pre) == Len(s) >= Len(pre) /\ SubSeq(s, 1, Len(pre)) = pre

\* The position of the first c in s, 0 when there is none.
IndexOf(s, c) ==
    IF Contains(s, c) THEN CHOOSE i \in 1..Len(s) : s[i] = c /\ \A j \in 1..(i - 1) : s[j] # c
    ELSE 0

\* strings.Split(s, c) for a one-character c: always at least one piece.
RECURSIVE Split(_, _)
Split(s, c) ==
    IF IndexOf(s, c) = 0 THEN <<s>>
    ELSE <<SubSeq(s, 1, IndexOf(s, c) - 1)>>
         \o Split(SubSeq(s, IndexOf(s, c) + 1, Len(s)), c)

\* strings.Join(pieces, sep)
RECURSIVE Join(_, _)
Join(pieces, sep) ==
    IF pieces = <<>> THEN <<>>
    ELSE IF Len(pieces) = 1 THEN pieces[1]
    ELSE pieces[1] \o sep \o Join(Tail(pieces), sep)

(***************************************************************************)
(* core.JenkinsCore, the transport shim.  RequestWithData and              *)
(* RequestWithoutData are given the status the operation expects and turn  *)
(* any other status into an error; Request and RequestWithResponse hand    *)
(* the status (the response) back and report only a failed transport.      *)
(***************************************************************************)
RequestWithoutData(expected, o) ==
    IF ~o.transportOk THEN "transport error"
    ELSE IF o.status # expected THEN "unexpected status code"
    ELSE Nil

RequestWithData(expected, o) == RequestWithoutData(expected, o)

Request(o) == IF o.transportOk THEN Nil ELSE "transport error"

VARIABLES
    op,               \* the operation this run performs, "none" before the call
    pc,               \* where the operation stands; "done" once it has returned
    err,              \* the operation's error result, Nil for none
    requests,         \* the requests handed to the transport so far, in order
    resp,             \* what the last round trip brought back
    hJob,             \* GetHistory: the build numbers the job's metadata lists
    hIdx,             \* GetHistory: the position of the loop over the build list
    hBuilds,          \* GetHistory: the build records returned
    parameters,       \* BuildWithParams: the parameters passed in
    bIdx,             \* BuildWithParams: the position of the loop over them
    stringParameters, \* BuildWithParams: the non-file parameters met so far
    hasFileParam,     \* BuildWithParams: a file parameter was met
    parts,            \* BuildWithParams: the file parts written to the multipart body
    open,             \* the file handles that are open
    ioFailed,         \* the local I/O failures met so far, in order
    names,            \* InstallPlugin: the names passed in
    pQueue,           \* InstallPlugin: the install queries of the bare names
    pVers,            \* InstallPlugin: the name@version names
    pIdx,             \* InstallPlugin: the position in the queue being worked on
    disk,             \* the plugin package files in the working directory
    jobLog,           \* Log: the result returned
    logAnswer,        \* Log: what the environment answered
    jobName,          \* ParseJobPath: the name passed in
    path,             \* ParseJobPath, ParsePipelinePath: the path returned
    pipelines,        \* ParsePipelinePath: the segments passed in
    reparsed          \* ParseJobPath: what it returns for the path it returned

commonVars == <<op, pc, err, requests, resp>>
histVars == <<hJob, hIdx, hBuilds>>
buildVars == <<parameters, bIdx, stringParameters, hasFileParam, parts>>
fileVars == <<open, ioFailed>>
pluginVars == <<names, pQueue, pVers, pIdx, disk>>
logVars == <<jobLog, logAnswer>>
pathVars == <<jobName, path, pipelines, reparsed>>

vars == <<commonVars, histVars, buildVars, fileVars, pluginVars, logVars, pathVars>>

(***************************************************************************)
(* GetBuild and GetHistory (job.go).                                       *)
(***************************************************************************)
\* The record the server returns for the build a path names.
BuildRecord(number) == [Number |-> number]

\* GetBuild's request: lastBuild for id -1, the numbered build otherwise.
GetBuildAPI(id) ==
    IF id = -1 THEN [method |-> "GET", api |-> "lastBuild/api/json", id |-> id]
    ELSE [method |-> "GET", api |-> "%d/api/json", id |-> id]

GetBuild(o) == RequestWithData(200, o)

\* job, err = q.GetJob(name); on success the loop starts over job.Builds.
HistoryGetJob ==
    /\ pc = "idle"
    /\ \E o \in Outcomes, list \in SeqUpTo(1..MaxBuildNumber, MaxBuilds) :
         LET e == RequestWithData(200, o) IN
         /\ requests' = Append(requests, [method |-> "GET", api |-> "api/json", id |-> 0])
         /\ resp' = o
         /\ err' = e
         /\ IF e = Nil
              THEN /\ hJob' = list /\ hIdx' = 1 /\ pc' = "loop"
              ELSE /\ hJob' = hJob /\ hIdx' = hIdx /\ pc' = "done"
    /\ op' = "GetHistory"
    /\ UNCHANGED <<hBuilds, buildVars, fileVars, pluginVars, logVars, pathVars>>

\* A loop that does not stop at a failed GetBuild.
HistoryAfterFetch_NoBreak(e) == "loop"

\* Where the loop goes after one GetBuild: it breaks on an error.
HistoryAfterFetch(e) == IF e # Nil THEN "done" ELSE "loop"

\* One turn of the loop: build, err = q.GetBuild(name, buildItem.Number).
HistoryFetch ==
    /\ op = "GetHistory" /\ pc = "loop" /\ hIdx <= Len(hJob)
    /\ \E o \in Outcomes :
         LET e == GetBuild(o) IN
         /\ requests' = Append(requests, GetBuildAPI(hJob[hIdx]))
         /\ resp' = o
         /\ err' = e
         /\ pc' = HistoryAfterFetch(e)
         /\ hBuilds' = IF e = Nil THEN Append(hBuilds, BuildRecord(hJob[hIdx]))
                       ELSE hBuilds
         /\ hIdx' = hIdx + 1
    /\ UNCHANGED <<op, hJob, buildVars, fileVars, pluginVars, logVars, pathVars>>

\* The build list is exhausted: GetHistory returns.
HistoryReturn ==
    /\ op = "GetHistory" /\ pc = "loop" /\ hIdx > Len(hJob)
    /\ pc' = "done"
    /\ UNCHANGED <<op, err, requests, resp, histVars, buildVars, fileVars, pluginVars, logVars, pathVars>>

NextHistory == HistoryGetJob \/ HistoryFetch \/ HistoryReturn

(***************************************************************************)
(* BuildWithParams (job.go).                                               *)
(***************************************************************************)
StringParameterDefinition == "StringParameterDefinition"
FileParameterDefinition == "FileParameterDefinition"

\* The parameters a caller passes.  A Filepath is its sequence of path
\* elements; Marshalable is FALSE for a parameter whose DefaultParameterValue
\* holds a value json.Marshal rejects.
ParamPool ==
    { [Name |-> "F", Type |-> FileParameterDefinition, Value |-> "",
       Filepath |-> <<"tmp", "a.txt">>, Marshalable |-> TRUE],
      [Name |-> "G", Type |-> FileParameterDefinition, Value |-> "",
       Filepath |-> <<"b.txt">>, Marshalable |-> TRUE],
      [Name |-> "X", Type |-> StringParameterDefinition, Value |-> "1",
       Filepath |-> <<>>, Marshalable |-> TRUE],
      [Name |-> "Y", Type |-> "", Value |-> "2",
       Filepath |-> <<>>, Marshalable |-> TRUE],
      [Name |-> "Z", Type |-> StringParameterDefinition, Value |-> "3",
       Filepath |-> <<>>, Marshalable |-> FALSE] }

\* filepath.Base: the last element of the path.
Base(filePath) == IF filePath = <<>> THEN "." ELSE filePath[Len(filePath)]

\* What the file system answers for one file parameter.
FileAnswers == [openOk : BOOLEAN, createOk : BOOLEAN, copyOk : BOOLEAN]

\* The deferred file.Close calls, run when BuildWithParams returns: every
\* handle the loop opened is closed.
BuildDeferredClose(handles) == {}

\* BuildWithParams is called: the loop over the parameters starts.
BuildCall ==
    /\ pc = "idle"
    /\ \E ps \in SeqUpTo(ParamPool, MaxParams) :
         /\ parameters' = ps
         /\ bIdx' = 1
    /\ op' = "BuildWithParams"
    /\ pc' = "loop"
    /\ UNCHANGED <<err, requests, resp, histVars, stringParameters, hasFileParam,
                   parts, fileVars, pluginVars, logVars, pathVars>>

\* One turn of the loop over the parameters.
BuildParam ==
    /\ op = "BuildWithParams" /\ pc = "loop" /\ bIdx <= Len(parameters)
    /\ LET parameter == parameters[bIdx] IN
       IF parameter.Type = FileParameterDefinition
       THEN \E f \in FileAnswers :
            /\ hasFileParam' = TRUE
            /\ UNCHANGED stringParameters
            /\ IF ~f.openOk
               THEN \* os.Open failed: return err, the deferred closes run
                    /\ err' = "open error"
                    /\ ioFailed' = Append(ioFailed, [idx |-> bIdx, kind |-> "open"])
                    /\ open' = BuildDeferredClose(open)
                    /\ pc' = "done"
                    /\ UNCHANGED <<parts, bIdx>>
               ELSE IF ~f.createOk
               THEN \* CreateFormFile failed: return err, the deferred closes run
                    /\ err' = "multipart error"
                    /\ ioFailed' = Append(ioFailed, [idx |-> bIdx, kind |-> "create"])
                    /\ open' = BuildDeferredClose(open \cup {bIdx})
                    /\ pc' = "done"
                    /\ UNCHANGED <<parts, bIdx>>
               ELSE \* _, err = io.Copy(fWriter, file): the loop goes on
                    /\ err' = IF f.copyOk THEN Nil ELSE "read error"
                    /\ ioFailed' = IF f.copyOk THEN ioFailed
                                   ELSE Append(ioFailed, [idx |-> bIdx, kind |-> "read"])
                    /\ open' = open \cup {bIdx}
                    /\ parts' = Append(parts, [field |-> parameter.Filepath,
                                               filename |-> Base(parameter.Filepath),
                                               complete |-> f.copyOk])
                    /\ bIdx' = bIdx + 1
                    /\ pc' = "loop"
       ELSE /\ stringParameters' = Append(stringParameters, parameter)
            /\ bIdx' = bIdx + 1
            /\ UNCHANGED <<err, hasFileParam, parts, open, ioFailed, pc>>
    /\ UNCHANGED <<op, requests, resp, histVars, parameters, pluginVars, logVars, pathVars>>

\* json.Marshal of one ParameterDefinition: a JSON object.
MarshalParameter(p) == <<"{", p.Name, p.Type, p.Value, "}">>

RECURSIVE MarshalItems(_)
MarshalItems(ps) ==
    IF ps = <<>> THEN <<>>
    ELSE IF Len(ps) = 1 THEN MarshalParameter(ps[1])
    ELSE MarshalParameter(ps[1]) \o <<",">> \o MarshalItems(Tail(ps))

\* json.Marshal of a (non-nil) slice of ParameterDefinition: a JSON array.
MarshalParameters(ps) == <<"[">> \o MarshalItems(ps) \o <<"]">>

\* json.Marshal fails on a value it cannot encode.
MarshalFails(ps) == \E i \in 1..Len(ps) : ~ps[i].Marshalable

\* A payload whose shape is decided by the count of all the parameters.
ParamJSON_CountsAll(sps) ==
    IF Len(parameters) = 1 /\ Len(sps) >= 1 THEN MarshalParameter(sps[1])
    ELSE MarshalParameters(sps)

\* paramJSON: the single parameter as an object when there is exactly one
\* string parameter, the slice as an array otherwise.
ParamJSON(sps) ==
    IF Len(sps) = 1 THEN MarshalParameter(sps[1]) ELSE MarshalParameters(sps)

\* fmt.Sprintf("{\"parameter\": %s}", string(paramJSON))
JSONField(paramJSON) == <<"{", "parameter", ":">> \o paramJSON \o <<"}">>

MultipartFormData == "multipart/form-data"
ApplicationForm == "application/x-www-form-urlencoded"

\* A request that is multipart only when there is no string parameter.
BuildRequest_FormWhenStrings(hasFile, fileParts, sps) ==
    [method |-> "POST", api |-> "build",
     contentType |-> IF hasFile /\ sps = <<>> THEN MultipartFormData ELSE ApplicationForm,
     files |-> IF hasFile /\ sps = <<>> THEN fileParts ELSE <<>>,
     fields |-> <<[name |-> "json", value |-> JSONField(ParamJSON(sps))]>>]

\* The request BuildWithParams hands to the transport.
BuildRequest(hasFile, fileParts, sps) ==
    IF hasFile
    THEN [method |-> "POST", api |-> "build", contentType |-> MultipartFormData,
          files |-> fileParts,
          fields |-> <<[name |-> "json", value |-> JSONField(ParamJSON(sps))]>>]
    ELSE [method |-> "POST", api |-> "build", contentType |-> ApplicationForm,
          files |-> <<>>,
          fields |-> <<[name |-> "json", value |-> JSONField(ParamJSON(sps))]>>]

\* After the loop: marshal the string parameters, write the json field and
\* issue the request; the deferred closes run as the function returns.
BuildSend ==
    /\ op = "BuildWithParams" /\ pc = "loop" /\ bIdx > Len(parameters)
    /\ \E o \in Outcomes, writeOk \in BOOLEAN :
         IF MarshalFails(stringParameters)
         THEN /\ err' = "json error"
              /\ UNCHANGED <<requests, resp>>
         ELSE IF hasFileParam /\ ~writeOk
         THEN /\ err' = "multipart error"
              /\ UNCHANGED <<requests, resp>>
         ELSE /\ requests' = Append(requests,
                                BuildRequest(hasFileParam, parts, stringParameters))
              /\ resp' = o
              /\ err' = RequestWithoutData(201, o)
    /\ open' = BuildDeferredClose(open)
    /\ pc' = "done"
    /\ UNCHANGED <<op, histVars, buildVars, ioFailed, pluginVars, logVars, pathVars>>

NextBuild == BuildCall \/ BuildParam \/ BuildSend

(***************************************************************************)
(* The plugin manager: Upload, UninstallPlugin, InstallPlugin.             *)
(***************************************************************************)
\* What the file system, the multipart writer, the authentication and the
\* server answer during one Upload.
UploadAnswers ==
    [openOk : BOOLEAN, statOk : BOOLEAN, createOk : BOOLEAN, closeOk : BOOLEAN,
     authOk : BOOLEAN, o : Outcomes]

\* newfileUploadRequest: the error it returns and whether the handle it
\* opened is still open when it returns.  file.Close is deferred only after
\* file.Stat has succeeded.
NewfileUploadRequest(a) ==
    IF ~a.openOk THEN [err |-> "open error", leaked |-> FALSE]
    ELSE IF ~a.statOk THEN [err |-> "stat error", leaked |-> TRUE]
    ELSE IF ~a.createOk THEN [err |-> "multipart error", leaked |-> FALSE]
    ELSE IF ~a.closeOk THEN [err |-> "multipart error", leaked |-> FALSE]
    ELSE [err |-> Nil, leaked |-> FALSE]

\* Upload: its error, whether the request reached the transport, and
\* whether the plugin file's handle is left open.
Upload(a) ==
    LET r == NewfileUploadRequest(a) IN
    IF r.err # Nil THEN [err |-> r.err, sent |-> FALSE, leaked |-> r.leaked]
    ELSE IF ~a.authOk THEN [err |-> "auth error", sent |-> FALSE, leaked |-> FALSE]
    ELSE IF ~a.o.transportOk THEN [err |-> "transport error", sent |-> TRUE, leaked |-> FALSE]
    ELSE IF a.o.status # 200 THEN [err |-> "StatusCode", sent |-> TRUE, leaked |-> FALSE]
    ELSE [err |-> Nil, sent |-> TRUE, leaked |-> FALSE]

UploadRequest(file) ==
    [method |-> "POST", api |-> "/pluginManager/uploadPlugin", file |-> file]

\* The local failure, if any, one Upload met.
UploadFailure(a, file) ==
    IF ~a.openOk THEN <<[idx |-> file, kind |-> "open"]>>
    ELSE IF ~a.statOk THEN <<[idx |-> file, kind |-> "stat"]>>
    ELSE IF ~a.createOk THEN <<[idx |-> file, kind |-> "create"]>>
    ELSE <<>>

\* The plugin files a caller uploads.
PluginFiles == {<<"a", ".hpi">>, <<"b", ".hpi">>}

\* Upload(pluginFile) called on its own.
UploadCall ==
    /\ pc = "idle"
    /\ \E a \in UploadAnswers, file \in PluginFiles :
         LET u == Upload(a) IN
         /\ err' = u.err
         /\ requests' = IF u.sent THEN Append(requests, UploadRequest(file)) ELSE requests
         /\ resp' = IF u.sent THEN a.o ELSE resp
         /\ open' = IF u.leaked THEN open \cup {file} ELSE open
         /\ ioFailed' = ioFailed \o UploadFailure(a, file)
    /\ op' = "Upload"
    /\ pc' = "done"
    /\ UNCHANGED <<histVars, buildVars, pluginVars, logVars, pathVars>>

\* UninstallPlugin(name)
UninstallPlugin(o) ==
    IF Request(o) # Nil THEN Request(o)
    ELSE IF o.status # 200 THEN "unexpected status code"
    ELSE Nil

UninstallCall ==
    /\ pc = "idle"
    /\ \E o \in Outcomes :
         /\ err' = UninstallPlugin(o)
         /\ resp' = o
    /\ requests' = Append(requests, [method |-> "POST", api |-> "/pluginManager/plugin/%s/doUninstall"])
    /\ op' = "UninstallPlugin"
    /\ pc' = "done"
    /\ UNCHANGED <<histVars, buildVars, fileVars, pluginVars, logVars, pathVars>>

\* The names a caller passes to InstallPlugin.
PluginNames ==
    { <<>>, <<"a">>, <<"b">>, <<"a", "@", "1">>, <<"b", "@", "2">>, <<"a", "&", "b">> }

\* getPluginsInstallQuery: plugin.<name>= for every non-empty name without
\* an @, joined with &.
RECURSIVE InstallQueries(_)
InstallQueries(ns) ==
    IF ns = <<>> THEN <<>>
    ELSE IF ns[1] # <<>> /\ ~Contains(ns[1], "@")
         THEN <<<<"plugin.">> \o ns[1] \o <<"=">>>> \o InstallQueries(Tail(ns))
         ELSE InstallQueries(Tail(ns))

getPluginsInstallQuery(ns) == Join(InstallQueries(ns), <<"&">>)

\* getVersionalPlugins: the names that hold an @.
HasVersion(n) == Contains(n, "@")
getVersionalPlugins(ns) == SelectSeq(ns, HasVersion)

\* The pieces InstallPlugin installs one by one: the query split on &.
BareQueue(ns) ==
    IF getPluginsInstallQuery(ns) # <<>> THEN Split(getPluginsInstallQuery(ns), "&")
    ELSE <<>>

\* installPluginsWithoutVersion: only a failed transport and a 400 answer
\* are errors.
installPluginsWithoutVersion(o, xError) ==
    IF o.transportOk /\ o.status = 400
    THEN IF xError THEN "X-Error message" ELSE "cannot found plugins"
    ELSE Request(o)

\* <name>.hpi, the file installPluginWithVersion downloads, uploads and removes.
PluginFileOf(n) == <<Split(n, "@")[1], ".hpi">>

\* InstallPlugin(names) is called.
InstallCall ==
    /\ pc = "idle"
    /\ \E ns \in SeqUpTo(PluginNames, MaxNames) :
         /\ names' = ns
         /\ pQueue' = BareQueue(ns)
         /\ pVers' = getVersionalPlugins(ns)
    /\ pIdx' = 1
    /\ op' = "InstallPlugin"
    /\ pc' = "bare"
    /\ UNCHANGED <<err, requests, resp, histVars, buildVars, fileVars, disk, logVars, pathVars>>

\* A first loop that goes on after a failed install.
InstallAfterBare_NoStop(e) == "bare"

\* Where InstallPlugin's first loop goes after one install: it returns on error.
InstallAfterBare(e) == IF e # Nil THEN "done" ELSE "bare"

\* One turn of the loop over the install queries.
InstallBare ==
    /\ op = "InstallPlugin" /\ pc = "bare" /\ pIdx <= Len(pQueue)
    /\ \E o \in Outcomes, xError \in BOOLEAN :
         LET e == installPluginsWithoutVersion(o, xError) IN
         /\ requests' = Append(requests, [method |-> "POST", api |-> "/pluginManager/install",
                                          query |-> pQueue[pIdx]])
         /\ resp' = o
         /\ err' = e
         /\ pc' = InstallAfterBare(e)
    /\ pIdx' = pIdx + 1
    /\ UNCHANGED <<op, histVars, buildVars, fileVars, names, pQueue, pVers, disk, logVars, pathVars>>

\* The first loop is over: the versioned names follow, if any.
InstallBareDone ==
    /\ op = "InstallPlugin" /\ pc = "bare" /\ pIdx > Len(pQueue)
    /\ IF Len(pVers) > 0 THEN pc' = "download" /\ pIdx' = 1
       ELSE pc' = "done" /\ pIdx' = pIdx
    /\ UNCHANGED <<op, err, requests, resp, histVars, buildVars, fileVars,
                   names, pQueue, pVers, disk, logVars, pathVars>>

\* An installPluginWithVersion that defers no removal.
RemoveDeferred_Missing(files, file) == files

\* The deferred os.Remove(pluginName) of installPluginWithVersion.
RemoveDeferred(files, file) == files \ {file}

\* installPluginWithVersion, first half: DownloadPluginWithVersion.  A failed
\* download ends the step (the deferred remove runs) and the loop.
InstallDownload ==
    /\ op = "InstallPlugin" /\ pc = "download" /\ pIdx <= Len(pVers)
    /\ \E ok \in BOOLEAN, wrote \in BOOLEAN :
         LET file == PluginFileOf(pVers[pIdx])
             written == IF ok \/ wrote THEN disk \cup {file} ELSE disk
         IN
         /\ requests' = Append(requests, [method |-> "GET", api |-> "download",
                                          plugin |-> pVers[pIdx]])
         /\ IF ok
            THEN /\ err' = Nil /\ disk' = written /\ pc' = "upload"
            ELSE /\ err' = "download error"
                 /\ disk' = RemoveDeferred(written, file)
                 /\ pc' = "done"
    /\ UNCHANGED <<op, resp, histVars, buildVars, fileVars, names, pQueue, pVers, pIdx, logVars, pathVars>>

\* installPluginWithVersion, second half: Upload, then the deferred remove.
InstallUpload ==
    /\ op = "InstallPlugin" /\ pc = "upload"
    /\ \E a \in UploadAnswers :
         LET file == PluginFileOf(pVers[pIdx])
             u == Upload(a)
         IN
         /\ err' = u.err
         /\ requests' = IF u.sent THEN Append(requests, UploadRequest(file)) ELSE requests
         /\ resp' = IF u.sent THEN a.o ELSE resp
         /\ open' = IF u.leaked THEN open \cup {file} ELSE open
         /\ ioFailed' = ioFailed \o UploadFailure(a, file)
         /\ disk' = RemoveDeferred(disk, file)
         /\ pc' = IF u.err # Nil THEN "done" ELSE "download"
    /\ pIdx' = pIdx + 1
    /\ UNCHANGED <<op, histVars, buildVars, names, pQueue, pVers, logVars, pathVars>>

\* The versioned names are exhausted: InstallPlugin returns.
InstallReturn ==
    /\ op = "InstallPlugin" /\ pc = "download" /\ pIdx > Len(pVers)
    /\ pc' = "done"
    /\ UNCHANGED <<op, err, requests, resp, histVars, buildVars, fileVars,
                   names, pQueue, pVers, pIdx, disk, logVars, pathVars>>

NextPlugin ==
    \/ UploadCall \/ UninstallCall \/ InstallCall \/ InstallBare \/ InstallBareDone
    \/ InstallDownload \/ InstallUpload \/ InstallReturn

(***************************************************************************)
(* ParseJobPath (job.go).                                                  *)
(***************************************************************************)
\* The characters job names are made of.
PathChars == {"/", "j", "o", "b", " "}

JobNames == SeqUpTo(PathChars, MaxNameLen)

\* path = fmt.Sprintf("%s/job/%s", path, item) over the items, from the left.
RECURSIVE JobItemsPath(_)
JobItemsPath(items) ==
    IF items = <<>> THEN <<>>
    ELSE JobItemsPath(Prefix(items, Len(items) - 1))
         \o <<"/", "j", "o", "b", "/">> \o items[Len(items)]

\* A ParseJobPath that puts /job/ between the items only.
ParseJobPath_Between(name) ==
    IF \/ name = <<>>
       \/ HasPrefix(name, <<"/", "j", "o", "b", "/">>)
       \/ HasPrefix(name, <<"j", "o", "b", "/">>)
    THEN name
    ELSE Join(Split(name, " "), <<"/", "j", "o", "b", "/">>)

\* A ParseJobPath that passes through only what begins with /job/.
ParseJobPath_SlashOnly(name) ==
    IF name = <<>> \/ HasPrefix(name, <<"/", "j", "o", "b", "/">>)
    THEN name
    ELSE JobItemsPath(Split(name, " "))

\* ParseJobPath
ParseJobPath(name) ==
    IF \/ name = <<>>
       \/ HasPrefix(name, <<"/", "j", "o", "b", "/">>)
       \/ HasPrefix(name, <<"j", "o", "b", "/">>)
    THEN name
    ELSE JobItemsPath(Split(name, " "))

\* ParseJobPath(jobName) is called.
ParseJobPathCall ==
    /\ pc = "idle"
    /\ \E n \in JobNames :
         /\ jobName' = n
         /\ path' = ParseJobPath(n)
    /\ op' = "ParseJobPath"
    /\ pc' = "done"
    /\ UNCHANGED <<err, requests, resp, histVars, buildVars, fileVars, pluginVars, logVars,
                   pipelines, reparsed>>

\* ParseJobPath is called on the path an earlier call returned.
ParseJobPathAgain ==
    /\ op = "ParseJobPath" /\ pc = "done"
    /\ reparsed' = ParseJobPath(path)
    /\ pc' = "again"
    /\ UNCHANGED <<op, err, requests, resp, histVars, buildVars, fileVars, pluginVars,
                   logVars, jobName, path, pipelines>>

\* The segments a caller passes to ParsePipelinePath.
PipelineNames == {<<>>, <<"a">>, <<"b">>, <<"a", "/", "b">>}

PipelinesPrefix == <<"p", "i", "p", "e", "l", "i", "n", "e", "s", "/">>
PipelinesSeparator == <<"/", "p", "i", "p", "e", "l", "i", "n", "e", "s", "/">>

\* A ParsePipelinePath that puts the prefix where the separator belongs.
ParsePipelinePath_PrefixAsSeparator(ps) ==
    IF Len(ps) = 0 THEN <<>>
    ELSE PipelinesPrefix \o Join(ps, PipelinesPrefix)

\* ParsePipelinePath
ParsePipelinePath(ps) ==
    IF Len(ps) = 0 THEN <<>>
    ELSE PipelinesPrefix \o Join(ps, PipelinesSeparator)

\* ParsePipelinePath(pipelines...) is called.
ParsePipelinePathCall ==
    /\ pc = "idle"
    /\ \E ps \in SeqUpTo(PipelineNames, MaxSegments) :
         /\ pipelines' = ps
         /\ path' = ParsePipelinePath(ps)
    /\ op' = "ParsePipelinePath"
    /\ pc' = "done"
    /\ UNCHANGED <<err, requests, resp, histVars, buildVars, fileVars, pluginVars, logVars,
                   jobName, reparsed>>

(***************************************************************************)
(* The single round trip operations.                                       *)
(***************************************************************************)
\* The operations that are one call of RequestWithData or RequestWithoutData,
\* with the status each passes as the expected one.
SingleRequestOps ==
    [Search |-> 200, Build |-> 201, BuildAndReturn |-> 200, GetBuild |-> 200,
     DisableJob |-> 200, EnableJob |-> 200, StopJob |-> 200, GetJob |-> 200,
     AddParameters |-> 200, RemoveParameters |-> 200, GetPipeline |-> 200,
     UpdatePipeline |-> 200, DeleteHistory |-> 200, GetJobInputActions |-> 200,
     JobInputSubmit |-> 200, GetAvailablePlugins |-> 200, GetPlugins |-> 200,
     GetPluginsFormula |-> 200]

SingleRequestCall ==
    /\ pc = "idle"
    /\ \E name \in DOMAIN SingleRequestOps, o \in Outcomes :
         /\ op' = name
         /\ err' = RequestWithoutData(SingleRequestOps[name], o)
         /\ resp' = o
         /\ requests' = Append(requests, [method |-> "ANY", api |-> name])
    /\ pc' = "done"
    /\ UNCHANGED <<histVars, buildVars, fileVars, pluginVars, logVars, pathVars>>

\* GetJobTypeCategories
GetJobTypeCategories(o) ==
    IF Request(o) # Nil THEN Request(o)
    ELSE IF o.status = 200 THEN Nil
    ELSE "unexpected status code"

CategoriesCall ==
    /\ pc = "idle"
    /\ \E o \in Outcomes :
         /\ err' = GetJobTypeCategories(o)
         /\ resp' = o
    /\ requests' = Append(requests, [method |-> "GET", api |-> "/view/all/itemCategories?depth=3"])
    /\ op' = "GetJobTypeCategories"
    /\ pc' = "done"
    /\ UNCHANGED <<histVars, buildVars, fileVars, pluginVars, logVars, pathVars>>

\* The status code RequestWithoutData returns beside its error: the server's,
\* 0 when the transport failed.
ReturnedCode(o) == IF o.transportOk THEN o.status ELSE 0

\* CreateJobInFolder: a 302 answer clears the error.
CreateJobInFolder(o) ==
    IF ReturnedCode(o) = 302 THEN Nil ELSE RequestWithoutData(200, o)

CreateCall ==
    /\ pc = "idle"
    /\ \E o \in Outcomes :
         /\ err' = CreateJobInFolder(o)
         /\ resp' = o
    /\ requests' = Append(requests, [method |-> "POST", api |-> "/view/all%s/createItem"])
    /\ op' = "CreateJobInFolder"
    /\ pc' = "done"
    /\ UNCHANGED <<histVars, buildVars, fileVars, pluginVars, logVars, pathVars>>

\* The job names a caller passes to Delete.
DeleteJobNames == {<<"o">>, <<"o", " ", "b">>, <<"j", "o", "b", "/", "o">>}

\* fmt.Errorf("unexpected status code: %d", statusCode)
UnexpectedStatus(code) == "unexpected status code: " \o ToString(code)

\* A Delete that takes 200 alone for a success.
Delete_Only200(o) ==
    IF Request(o) # Nil THEN Request(o)
    ELSE IF o.status # 200 THEN UnexpectedStatus(o.status)
    ELSE Nil

\* Delete: 200 and 302 are a success.
Delete(o) ==
    IF Request(o) # Nil THEN Request(o)
    ELSE IF o.status # 200 /\ o.status # 302 THEN UnexpectedStatus(o.status)
    ELSE Nil

\* Delete(jobName): one POST to <ParseJobPath(jobName)>/doDelete.
DeleteCall ==
    /\ pc = "idle"
    /\ \E o \in Outcomes, n \in DeleteJobNames :
         /\ err' = Delete(o)
         /\ resp' = o
         /\ jobName' = n
         /\ requests' = Append(requests, [method |-> "POST", api |-> "%s/doDelete",
                                          job |-> ParseJobPath(n),
                                          contentType |-> ApplicationForm])
    /\ op' = "Delete"
    /\ pc' = "done"
    /\ UNCHANGED <<histVars, buildVars, fileVars, pluginVars, logVars, path, pipelines, reparsed>>

NextSingle == SingleRequestCall \/ CategoriesCall \/ CreateCall \/ DeleteCall

(***************************************************************************)
(* Log, the progressive log reader (job.go).                               *)
(***************************************************************************)
\* An int64 is written as its sign and its decimal digits without leading
\* zeros, so that the values near 2^63 can be told apart.
Zero == [neg |-> FALSE, digits |-> <<0>>]
MaxInt64 == [neg |-> FALSE, digits |-> <<9, 2, 2, 3, 3, 7, 2, 0, 3, 6, 8, 5, 4, 7, 7, 5, 8, 0, 7>>]
MinInt64 == [neg |-> TRUE, digits |-> <<9, 2, 2, 3, 3, 7, 2, 0, 3, 6, 8, 5, 4, 7, 7, 5, 8, 0, 8>>]
MaxUint64Digits == <<1, 8, 4, 4, 6, 7, 4, 4, 0, 7, 3, 7, 0, 9, 5, 5, 1, 6, 1, 5>>

DigitChars == <<"0", "1", "2", "3", "4", "5", "6", "7", "8", "9">>
IsDigit(c) == \E d \in 1..10 : DigitChars[d] = c
DigitOf(c) == (CHOOSE d \in 1..10 : DigitChars[d] = c) - 1

\* A digit sequence without its leading zeros (<<0>> for zero).
RECURSIVE Canon(_)
Canon(ds) ==
    IF ds = <<>> THEN <<0>>
    ELSE IF Len(ds) > 1 /\ ds[1] = 0 THEN Canon(Tail(ds))
    ELSE ds

\* a > b for two digit sequences without leading zeros.
DigitsGreater(a, b) ==
    \/ Len(a) > Len(b)
    \/ /\ Len(a) = Len(b)
       /\ \E i \in 1..Len(a) : /\ a[i] > b[i]
                               /\ \A j \in 1..(i - 1) : a[j] = b[j]

\* The longest prefix of s made of digits.
RECURSIVE DigitPrefix(_)
DigitPrefix(s) ==
    IF s = <<>> \/ ~IsDigit(s[1]) THEN <<>>
    ELSE <<DigitOf(s[1])>> \o DigitPrefix(Tail(s))

\* strconv.ParseUint(s, 10, 64): the digits are read from the left; the first
\* character that is no digit is a syntax error, unless the digits before it
\* already exceed 64 bits, which is a range error with the largest value.
ParseUint(s) ==
    LET dp == DigitPrefix(s) IN
    IF s = <<>> THEN [digits |-> <<0>>, err |-> "syntax"]
    ELSE IF DigitsGreater(Canon(dp), MaxUint64Digits)
         THEN [digits |-> MaxUint64Digits, err |-> "range"]
    ELSE IF Len(dp) < Len(s) THEN [digits |-> <<0>>, err |-> "syntax"]
    ELSE [digits |-> Canon(dp), err |-> Nil]

\* strconv.ParseInt(s, 10, 64): 0 on a syntax error, the nearest int64 on a
\* range error.
ParseInt(s) ==
    IF s = <<>> THEN [val |-> Zero, err |-> "syntax"]
    ELSE
    LET neg == s[1] = "-"
        rest == IF s[1] \in {"+", "-"} THEN Tail(s) ELSE s
        un == ParseUint(rest)
    IN
    IF un.err = "syntax" THEN [val |-> Zero, err |-> "syntax"]
    ELSE IF ~neg /\ DigitsGreater(un.digits, MaxInt64.digits)
         THEN [val |-> MaxInt64, err |-> "range"]
    ELSE IF neg /\ DigitsGreater(un.digits, MinInt64.digits)
         THEN [val |-> MinInt64, err |-> "range"]
    ELSE [val |-> [neg |-> neg /\ un.digits # <<0>>, digits |-> un.digits], err |-> Nil]

UpperChars == <<"A", "B", "C", "D", "E", "F", "G", "H", "I", "J", "K", "L", "M",
                "N", "O", "P", "Q", "R", "S", "T", "U", "V", "W", "X", "Y", "Z">>
LowerChars == <<"a", "b", "c", "d", "e", "f", "g", "h", "i", "j", "k", "l", "m",
                "n", "o", "p", "q", "r", "s", "t", "u", "v", "w", "x", "y", "z">>

\* strings.ToLower
ToLowerChar(c) ==
    IF \E i \in 1..26 : UpperChars[i] = c
    THEN LowerChars[CHOOSE i \in 1..26 : UpperChars[i] = c]
    ELSE c
ToLower(s) == [i \in 1..Len(s) |-> ToLowerChar(s[i])]

\* What the X-More-Data and X-Text-Size headers may hold; the empty string is
\* what Header.Get returns for an absent header.
MoreDataValues ==
    { <<>>,
      <<"t", "r", "u", "e">>,
      <<"T", "R", "U", "E">>,
      <<"T", "r", "u", "e">>,
      <<"f", "a", "l", "s", "e">>,
      <<"t", "r", "u", "e", " ">> }

TextSizeValues ==
    { <<>>,
      <<"4", "2">>,
      <<"-", "7">>,
      <<"+", "5">>,
      <<"0", "0", "7">>,
      <<"-", "0">>,
      <<"4", "x">>,
      <<"-">>,
      <<"9", "2", "2", "3", "3", "7", "2", "0", "3", "6", "8", "5", "4", "7", "7", "5", "8", "0", "7">>,
      <<"9", "2", "2", "3", "3", "7", "2", "0", "3", "6", "8", "5", "4", "7", "7", "5", "8", "0", "8">>,
      <<"-", "9", "2", "2", "3", "3", "7", "2", "0", "3", "6", "8", "5", "4", "7", "7", "5", "8", "0", "8">>,
      <<"-", "9", "2", "2", "3", "3", "7", "2", "0", "3", "6", "8", "5", "4", "7", "7", "5", "8", "0", "9">>,
      <<"1", "8", "4", "4", "6", "7", "4", "4", "0", "7", "3", "7", "0", "9", "5", "5", "1", "6", "1", "6">>,
      <<"9", "9", "9", "9", "9", "9", "9", "9", "9", "9", "9", "9", "9", "9", "9", "9", "9", "9", "9", "9", "x">> }

\* The response bodies, as sequences of lines.
Bodies == { <<>>, <<"line 1">>, <<"line 1", "line 2">> }

\* What building the request, the authentication and the server answer
\* during one Log call.  read is how much of the body ioutil.ReadAll got:
\* all of it, or a part of it and an error.
LogAnswers ==
    [buildOk : BOOLEAN, authOk : BOOLEAN, o : Outcomes, body : Bodies,
     readOk : BOOLEAN, hasHeader : BOOLEAN,
     moreData : MoreDataValues, textSize : TextSizeValues]

DefaultLog == [HasMore |-> FALSE, Text |-> <<>>, NextStart |-> Zero]

\* ioutil.ReadAll(response.Body): the body, or its first lines and an error.
ReadAll(a) == IF a.readOk THEN a.body ELSE Prefix(a.body, Len(a.body) - 1)

\* A HasMore that compares the header as it came.
HasMoreOf_CaseSensitive(a) == a.moreData = <<"t", "r", "u", "e">>

\* jobLog.HasMore
HasMoreOf(a) == ToLower(a.moreData) = <<"t", "r", "u", "e">>

\* jobLog.NextStart
NextStartOf(a) == ParseInt(a.textSize).val

\* A Log that reads the body and the headers whatever the status.
Log_AnyStatus(a) ==
    IF ~a.buildOk THEN [jobLog |-> DefaultLog, err |-> "request error"]
    ELSE IF ~a.authOk THEN [jobLog |-> DefaultLog, err |-> "auth error"]
    ELSE IF ~a.o.transportOk THEN [jobLog |-> DefaultLog, err |-> "transport error"]
    ELSE [jobLog |-> [HasMore |-> a.hasHeader /\ HasMoreOf(a), Text |-> ReadAll(a),
                      NextStart |-> IF a.hasHeader THEN NextStartOf(a) ELSE Zero],
          err |-> IF a.readOk THEN Nil ELSE "read error"]

\* Log: the jobLog and the error it returns.
Log(a) ==
    IF ~a.buildOk THEN [jobLog |-> DefaultLog, err |-> "request error"]
    ELSE IF ~a.authOk THEN [jobLog |-> DefaultLog, err |-> "auth error"]
    ELSE IF ~a.o.transportOk THEN [jobLog |-> DefaultLog, err |-> "transport error"]
    ELSE
    LET e == IF a.readOk THEN Nil ELSE "read error" IN
    IF a.o.status = 200
    THEN IF a.hasHeader
         THEN [jobLog |-> [HasMore |-> HasMoreOf(a), Text |-> ReadAll(a),
                           NextStart |-> NextStartOf(a)],
               err |-> e]
         ELSE [jobLog |-> [HasMore |-> FALSE, Text |-> ReadAll(a), NextStart |-> Zero],
               err |-> e]
    ELSE [jobLog |-> DefaultLog, err |-> e]

\* The answers that differ only in what Log never looks at are drawn once.
LogAnswerDrawn(a) ==
    /\ (~a.buildOk) => a.authOk
    /\ (~a.buildOk \/ ~a.authOk) => a.o = [transportOk |-> FALSE, status |-> 200]
    /\ (~a.o.transportOk) =>
          /\ a.o.status = 200 /\ a.body = <<>> /\ a.readOk /\ ~a.hasHeader
    /\ (a.body = <<>>) => a.readOk
    /\ (~a.hasHeader) => a.moreData = <<>> /\ a.textSize = <<>>

LogCall ==
    /\ pc = "idle"
    /\ \E a \in LogAnswers :
         /\ LogAnswerDrawn(a)
         /\ jobLog' = Log(a).jobLog
         /\ err' = Log(a).err
         /\ logAnswer' = a
         /\ resp' = IF a.buildOk /\ a.authOk THEN a.o ELSE resp
         /\ requests' = IF a.buildOk /\ a.authOk
                        THEN Append(requests, [method |-> "GET",
                                               api |-> "logText/progressiveText"])
                        ELSE requests
    /\ op' = "Log"
    /\ pc' = "done"
    /\ UNCHANGED <<histVars, buildVars, fileVars, pluginVars, pathVars>>

CommonIdle == op = "none" /\ pc = "idle" /\ err = Nil /\ requests = <<>> /\ resp = NoResponse
HistIdle == hJob = <<>> /\ hIdx = 0 /\ hBuilds = <<>>
BuildIdle ==
    /\ parameters = <<>> /\ bIdx = 0 /\ stringParameters = <<>>
    /\ hasFileParam = FALSE /\ parts = <<>>
FileIdle == open = {} /\ ioFailed = <<>>
PluginIdle == names = <<>> /\ pQueue = <<>> /\ pVers = <<>> /\ pIdx = 0 /\ disk = {}

\* Before any Log call: the zero result and no answer.
NoLogAnswer ==
    [buildOk |-> FALSE, authOk |-> TRUE, o |-> [transportOk |-> FALSE, status |-> 200],
     body |-> <<>>, readOk |-> TRUE, hasHeader |-> FALSE, moreData |-> <<>>,
     textSize |-> <<>>]

LogIdle == jobLog = DefaultLog /\ logAnswer = NoLogAnswer
PathIdle == jobName = <<>> /\ path = <<>> /\ pipelines = <<>> /\ reparsed = <<>>

\* The client after construction: no operation called yet.
Init == CommonIdle /\ HistIdle /\ BuildIdle /\ FileIdle /\ PluginIdle /\ LogIdle
        /\ PathIdle

Next == NextHistory \/ NextBuild \/ NextPlugin \/ NextSingle \/ LogCall

Spec == Init /\ [][Next]_vars

\* The path functions on their own.
NextPath == ParseJobPathCall \/ ParseJobPathAgain \/ ParsePipelinePathCall

SpecPath == Init /\ [][NextPath]_vars

(***************************************************************************)
(* The claims.                                                             *)
(***************************************************************************)
IsFile(p) == p.Type = FileParameterDefinition
IsString(p) == p.Type # FileParameterDefinition

\* The requests GetHistory issued after the one for the job's metadata.
HistoryFetches == Tail(requests)

\* GetHistory has the job's metadata (GetJob succeeded).
HistoryHasJob == op = "GetHistory" /\ hIdx >= 1

\* C1: GetHistory fetches the listed builds one at a time in the order the job
\* lists them, once each; when every fetch succeeds it returns one record per
\* listed build in that order and no error; when the k-th fetch fails it issues
\* no further fetch and returns the records of the first k-1 builds with the
\* error.
C1_HistorySequential ==
    HistoryHasJob =>
        LET k == Len(HistoryFetches) IN
        /\ k <= Len(hJob)
        /\ \A i \in 1..k : /\ HistoryFetches[i].method = "GET"
                           /\ HistoryFetches[i].id = hJob[i]
        /\ (pc = "done" /\ err = Nil) =>
               /\ k = Len(hJob)
               /\ hBuilds = [i \in 1..Len(hJob) |-> [Number |-> hJob[i]]]
        /\ (pc = "done" /\ err # Nil) =>
               /\ k >= 1
               /\ hBuilds = [i \in 1..(k - 1) |-> [Number |-> hJob[i]]]
        /\ (pc = "loop" /\ k >= 1) => err = Nil

\* C1 witness: the job lists 1, 2, 3 and the fetch of build 2 fails.
C1_Witness ==
    /\ HistoryHasJob /\ pc = "done" /\ err # Nil
    /\ hJob = <<1, 2, 3>>
    /\ Len(HistoryFetches) = 2
    /\ hBuilds = <<[Number |-> 1]>>

\* C2: in BuildWithParams a file parameter whose file cannot be opened or cannot
\* be read aborts the construction: the call returns that I/O error and issues
\* no request.
C2_FileErrorAborts ==
    (/\ op = "BuildWithParams" /\ pc = "done"
     /\ \E i \in 1..Len(ioFailed) : ioFailed[i].kind \in {"open", "read"})
    => /\ err \in {"open error", "read error"}
       /\ requests = <<>>

\* C8: BuildWithParams partitions its parameters into file parameters and
\* string parameters (all others, order kept); with a file parameter the request
\* is multipart/form-data with one file part per file parameter and one json
\* field built from the string parameters; with none it is
\* application/x-www-form-urlencoded with the single field json.
C8_PayloadShape ==
    (op = "BuildWithParams" /\ pc = "done") =>
        LET files == SelectSeq(parameters, IsFile)
            strs == SelectSeq(parameters, IsString)
        IN
        /\ (ioFailed = <<>> \/ requests # <<>>) => stringParameters = strs
        /\ Len(requests) <= 1
        /\ requests # <<>> =>
             LET r == requests[1] IN
             /\ Len(r.fields) = 1
             /\ r.fields[1].name = "json"
             /\ r.fields[1].value = JSONField(ParamJSON(strs))
             /\ Len(r.files) = Len(files)
             /\ \A i \in 1..Len(files) :
                    /\ r.files[i].field = files[i].Filepath
                    /\ r.files[i].filename = Base(files[i].Filepath)
             /\ r.contentType = IF files # <<>> THEN "multipart/form-data"
                                ELSE "application/x-www-form-urlencoded"

\* C8 witness: a multipart request with one file part and two string parameters.
C8_Witness ==
    /\ op = "BuildWithParams" /\ pc = "done" /\ requests # <<>>
    /\ Len(SelectSeq(parameters, IsFile)) = 1
    /\ Len(SelectSeq(parameters, IsString)) = 2
    /\ requests[1].contentType = "multipart/form-data"

\* The value of `parameter` inside the json field of the request.
ParameterValue(r) ==
    LET v == r.fields[1].value IN SubSeq(v, 4, Len(v) - 1)

\* C9: in the json field the value of `parameter` is one JSON object when there
\* is exactly one string parameter, and a JSON array of all the string
\* parameters in input order otherwise (the empty array for none); the count is
\* that of the string parameters, not of all the parameters.
C9_ObjectOrArray ==
    (op = "BuildWithParams" /\ pc = "done" /\ requests # <<>>) =>
        LET strs == SelectSeq(parameters, IsString)
            n == Len(strs)
            v == requests[1].fields[1].value
            pv == ParameterValue(requests[1])
        IN
        /\ SubSeq(v, 1, 3) = <<"{", "parameter", ":">>
        /\ v[Len(v)] = "}"
        /\ IF n = 1
           THEN pv = <<"{", strs[1].Name, strs[1].Type, strs[1].Value, "}">>
           ELSE /\ pv[1] = "[" /\ pv[Len(pv)] = "]"
                /\ Len(pv) = IF n = 0 THEN 2 ELSE 6 * n + 1
                /\ \A i \in 1..n :
                       /\ SubSeq(pv, 6 * i - 4, 6 * i) =
                            <<"{", strs[i].Name, strs[i].Type, strs[i].Value, "}">>
                       /\ i < n => pv[6 * i + 1] = ","

\* C9 witness: one file parameter and exactly one string parameter, sent as an
\* object.
C9_Witness ==
    /\ op = "BuildWithParams" /\ pc = "done" /\ requests # <<>>
    /\ Len(parameters) = 2
    /\ Len(SelectSeq(parameters, IsString)) = 1
    /\ ParameterValue(requests[1])[1] = "{"

\* The status each operation expects.
ExpectedStatus(o) ==
    IF o \in DOMAIN SingleRequestOps THEN SingleRequestOps[o]
    ELSE IF o = "BuildWithParams" THEN 201
    ELSE 200

StatusOperations ==
    DOMAIN SingleRequestOps \cup
    {"GetHistory", "BuildWithParams", "InstallPlugin", "Upload", "UninstallPlugin",
     "GetJobTypeCategories", "CreateJobInFolder", "Delete"}

\* C3: every operation other than the log fetch returns an error whenever the
\* transport succeeds and the server answers with a status other than the one
\* the operation expects, 302 being tolerated for job creation and deletion
\* only; in particular for plugin installation, uninstallation and upload.
C3_UnexpectedStatusIsError ==
    (/\ pc = "done" /\ op \in StatusOperations
     /\ resp.transportOk /\ resp.status # ExpectedStatus(op)
     /\ ~(op \in {"CreateJobInFolder", "Delete"} /\ resp.status = 302))
    => err # Nil

\* C4: every file handle a file-bearing operation opened is closed by the time
\* the operation returns, on every exit path.
C4_HandlesClosed == pc = "done" => open = {}

IsBare(n) == n # <<>> /\ ~Contains(n, "@")
IsInstall(r) == r.api = "/pluginManager/install"
IsDownload(r) == r.api = "download"
IsUpload(r) == r.api = "/pluginManager/uploadPlugin"
IsVersionStep(r) == IsDownload(r) \/ IsUpload(r)

\* The & separated pieces of plugin.<name>= for every bare name, in order.
RECURSIVE QueryPieces(_)
QueryPieces(bare) ==
    IF bare = <<>> THEN <<>>
    ELSE Split(<<"plugin.">> \o bare[1] \o <<"=">>, "&") \o QueryPieces(Tail(bare))

\* The order and the halting of InstallPlugin, for a given list of the
\* queries its install requests are to carry.
InstallSequential(queries) ==
    op = "InstallPlugin" =>
        LET inst == SelectSeq(requests, IsInstall)
            later == SelectSeq(requests, IsVersionStep)
            loads == SelectSeq(requests, IsDownload)
            sends == SelectSeq(requests, IsUpload)
            vers == SelectSeq(names, HasVersion)
        IN
        /\ Len(inst) <= Len(queries)
        /\ \A i \in 1..Len(inst) : inst[i].query = queries[i]
        /\ requests = inst \o later
        /\ later # <<>> => Len(inst) = Len(queries)
        /\ Len(loads) <= Len(vers)
        /\ \A i \in 1..Len(loads) : loads[i].plugin = vers[i]
        /\ Len(sends) <= Len(loads)
        /\ pc # "done" => err = Nil
        /\ (pc = "done" /\ err = Nil) =>
               /\ Len(inst) = Len(queries)
               /\ Len(loads) = Len(vers)

\* C5 as stated: InstallPlugin issues one install request per non-empty bare
\* name in input order, then handles each name@version in input order, and
\* stops at the first failing step.
C5_OneInstallPerBareName ==
    InstallSequential([i \in 1..Len(SelectSeq(names, IsBare)) |->
                          <<"plugin.">> \o SelectSeq(names, IsBare)[i] \o <<"=">>])

\* C5: InstallPlugin works strictly in sequence and halts on the first failure:
\* it issues one install request per & separated piece of plugin.<name>= for
\* each non-empty bare name (one request per bare name that holds no &), in
\* input order, then handles each name@version in input order, skips empty
\* names, and after the first failing step issues no further step and
\* returns that step's error.
C5_InstallSequential == InstallSequential(QueryPieces(SelectSeq(names, IsBare)))

\* C5 witness: a versioned name passed before a bare one is handled after it.
C5_Witness ==
    /\ op = "InstallPlugin" /\ pc = "done" /\ err = Nil
    /\ names = << <<"b", "@", "2">>, <<"a">> >>
    /\ Len(requests) = 3
    /\ IsInstall(requests[1]) /\ IsDownload(requests[2]) /\ IsUpload(requests[3])

\* The Log call got its request built, authenticated and answered.
LogAnswered ==
    /\ op = "Log" /\ pc = "done"
    /\ logAnswer.buildOk /\ logAnswer.authOk /\ logAnswer.o.transportOk

\* C6: Log, when the server answers with a status other than 200, returns the
\* default result (no text, HasMore false, NextStart 0) and no error; an error
\* is returned only when the transport failed (the request or the reading of
\* the body).
C6_LogOtherStatus ==
    (op = "Log" /\ pc = "done" /\ logAnswer.buildOk /\ logAnswer.authOk) =>
        /\ (logAnswer.o.transportOk /\ logAnswer.o.status # 200) =>
               /\ jobLog = [HasMore |-> FALSE, Text |-> <<>>,
                            NextStart |-> [neg |-> FALSE, digits |-> <<0>>]]
               /\ logAnswer.readOk => err = Nil
        /\ err # Nil => (~logAnswer.o.transportOk \/ ~logAnswer.readOk)

\* C6 witness: a 404 answer that carries a body and both headers.
C6_Witness ==
    /\ LogAnswered /\ logAnswer.o.status = 404 /\ err = Nil
    /\ logAnswer.body # <<>> /\ logAnswer.hasHeader
    /\ logAnswer.moreData = <<"t", "r", "u", "e">>
    /\ logAnswer.textSize = <<"4", "2">>
    /\ jobLog.Text = <<>>

\* "true", compared without regard to case.
EqualFoldTrue(s) ==
    /\ Len(s) = 4
    /\ s[1] \in {"t", "T"} /\ s[2] \in {"r", "R"}
    /\ s[3] \in {"u", "U"} /\ s[4] \in {"e", "E"}

Unsigned(s) == IF s # <<>> /\ s[1] \in {"+", "-"} THEN Tail(s) ELSE s
Negative(s) == s # <<>> /\ s[1] = "-"

\* s is a decimal integer: an optional sign and one digit or more.
IsNumeral(s) ==
    /\ Unsigned(s) # <<>>
    /\ \A i \in 1..Len(Unsigned(s)) : IsDigit(Unsigned(s)[i])

Magnitude(s) == Canon([i \in 1..Len(Unsigned(s)) |-> DigitOf(Unsigned(s)[i])])

\* The decimal integer s is an int64.
InInt64(s) ==
    IF Negative(s) THEN ~DigitsGreater(Magnitude(s), MinInt64.digits)
    ELSE ~DigitsGreater(Magnitude(s), MaxInt64.digits)

Int64Of(s) == [neg |-> Negative(s) /\ Magnitude(s) # <<0>>, digits |-> Magnitude(s)]

\* The leading digits of s alone exceed 64 unsigned bits.
DigitsOverflow(s) == DigitsGreater(Canon(DigitPrefix(Unsigned(s))), MaxUint64Digits)

\* What Log returns on a 200 answer, for a given reading of X-Text-Size.
LogOn200(nextStart) ==
    (LogAnswered /\ logAnswer.o.status = 200) =>
        /\ logAnswer.readOk => jobLog.Text = logAnswer.body
        /\ \E k \in 0..Len(logAnswer.body) : jobLog.Text = SubSeq(logAnswer.body, 1, k)
        /\ jobLog.HasMore = (logAnswer.hasHeader /\ EqualFoldTrue(logAnswer.moreData))
        /\ jobLog.NextStart = nextStart

\* HasMore is never returned with a status other than 200.
HasMoreOnlyOn200 ==
    (op = "Log" /\ pc = "done" /\ jobLog.HasMore) => LogAnswered /\ logAnswer.o.status = 200

\* C7 as stated: on a 200 answer Text is the body, HasMore is whether
\* X-More-Data is "true" without regard to case, and NextStart is the int64
\* value of X-Text-Size, 0 when the header is absent or cannot be parsed.
C7_NextStartZeroIfUnparseable ==
    /\ HasMoreOnlyOn200
    /\ LogOn200(IF op = "Log" /\ IsNumeral(logAnswer.textSize) /\ InInt64(logAnswer.textSize)
                THEN Int64Of(logAnswer.textSize)
                ELSE [neg |-> FALSE, digits |-> <<0>>])

\* C7: on a 200 answer Text is the body, HasMore is whether X-More-Data is
\* "true" without regard to case, and NextStart is the int64 value of
\* X-Text-Size; 0 when the header is absent or is no decimal integer; the
\* nearest int64 (the largest, or the smallest after a minus sign) when the
\* value is out of the int64 range or its leading digits alone exceed 64
\* unsigned bits.  HasMore is never returned with a status other than 200.
C7_LogOn200 ==
    /\ HasMoreOnlyOn200
    /\ LogOn200(IF op # "Log" THEN Zero
                ELSE IF IsNumeral(logAnswer.textSize) /\ InInt64(logAnswer.textSize)
                THEN Int64Of(logAnswer.textSize)
                ELSE IF IsNumeral(logAnswer.textSize) \/ DigitsOverflow(logAnswer.textSize)
                THEN (IF Negative(logAnswer.textSize) THEN MinInt64 ELSE MaxInt64)
                ELSE [neg |-> FALSE, digits |-> <<0>>])

\* C7 witness: X-More-Data: TRUE and X-Text-Size: 42 on a 200 answer.
C7_Witness ==
    /\ LogAnswered /\ logAnswer.o.status = 200 /\ logAnswer.hasHeader
    /\ logAnswer.moreData = <<"T", "R", "U", "E">>
    /\ logAnswer.textSize = <<"4", "2">>
    /\ jobLog.HasMore
    /\ jobLog.NextStart = [neg |-> FALSE, digits |-> <<4, 2>>]

\* s with every space replaced by /job/.
RECURSIVE SpacesToJob(_)
SpacesToJob(s) ==
    IF s = <<>> THEN <<>>
    ELSE (IF s[1] = " " THEN <<"/", "j", "o", "b", "/">> ELSE <<s[1]>>)
         \o SpacesToJob(Tail(s))

BeginsWith(s, t) == Len(s) >= Len(t) /\ \A i \in 1..Len(t) : s[i] = t[i]

JobPathOf(name) ==
    IF \/ name = <<>>
       \/ BeginsWith(name, <<"/", "j", "o", "b", "/">>)
       \/ BeginsWith(name, <<"j", "o", "b", "/">>)
    THEN name
    ELSE <<"/", "j", "o", "b", "/">> \o SpacesToJob(name)

\* C11: Delete issues a single POST to <job path>/doDelete and returns no
\* error exactly when the transport succeeds and the status is 200 or 302; any
\* other status yields an error carrying the received code, and a transport
\* error is returned unchanged.
C11_Delete ==
    (op = "Delete" /\ pc = "done") =>
        /\ Len(requests) = 1
        /\ requests[1].method = "POST"
        /\ requests[1].api = "%s/doDelete"
        /\ requests[1].job = JobPathOf(jobName)
        /\ (err = Nil) <=> (resp.transportOk /\ resp.status \in {200, 302})
        /\ (resp.transportOk /\ resp.status \notin {200, 302}) =>
               err = "unexpected status code: " \o ToString(resp.status)
        /\ ~resp.transportOk => err = Request(resp)

\* C11 witness: a 302 answer to the deletion of a job in a folder is a success.
C11_Witness ==
    /\ op = "Delete" /\ pc = "done" /\ err = Nil
    /\ jobName = <<"o", " ", "b">>
    /\ resp.transportOk /\ resp.status = 302
    /\ requests[1].job = <<"/", "j", "o", "b", "/", "o", "/", "j", "o", "b", "/", "b">>

\* pipelines/<segment> for every segment in order, a slash between two of them.
RECURSIVE PipelineSegments(_)
PipelineSegments(ps) ==
    IF ps = <<>> THEN <<>>
    ELSE IF Len(ps) = 1 THEN PipelinesPrefix \o ps[1]
    ELSE PipelinesPrefix \o ps[1] \o <<"/">> \o PipelineSegments(Tail(ps))

StepFile(r) == IF IsDownload(r) THEN PluginFileOf(r.plugin) ELSE r.file

C14_ParseJobPathIdempotent ==
    /\ (op = "ParseJobPath" /\ pc = "again") => reparsed = path
    /\ (op = "ParseJobPath" /\ pc \in {"done", "again"} /\ path # jobName) =>
           BeginsWith(path, <<"/", "j", "o", "b", "/">>)

\* C14 witness: a leading and a doubled space give empty segments, and the
\* second application changes nothing.
C14_Witness ==
    /\ op = "ParseJobPath" /\ pc = "again"
    /\ jobName = <<" ", "o", " ", " ", "b">>
    /\ path = <<"/", "j", "o", "b", "/", "/", "j", "o", "b", "/", "o",
                "/", "j", "o", "b", "/", "/", "j", "o", "b", "/", "b">>
    /\ reparsed = path

====
